---- MODULE Spec2Model ----
(***************************************************************************)
(* Boundary-condition resolution of polycrystalx: the deformation loaders  *)
(* (loaders/deformation.py), the deformation input templates               *)
(* (inputs/deformation.py) and the run-time options (inputs/options.py).   *)
(*                                                                         *)
(* Python values are encoded as follows.  None is the empty tuple and an   *)
(* optional integer c is the one-element tuple <<c>>.  A numpy index array *)
(* is a sequence of integers.  An array indexed by degree of freedom is a  *)
(* function on 0..n-1.  A call that raises returns a record whose status   *)
(* is the exception's name and whose value is None.                        *)
(***************************************************************************)
EXTENDS Integers, Sequences, FiniteSets, TLC

VARIABLES
    bdict,        \* loader: the boundary dictionary, section name -> facets
    defm_input,   \* loader: DefmLoader.defm_input
    last,         \* loader: the most recent call of a loader method
    heap,         \* inputs: the list objects, by identity
    instances,    \* inputs: the input records constructed so far
    created,      \* inputs: what the newest record showed when constructed
    output,       \* options: LinearElasticity.output
    replaced      \* options: keyword arguments of the latest _replace

vars == <<bdict, defm_input, last, heap, instances, created,
          output, replaced>>

loaderVars == <<bdict, defm_input, last>>
inputVars == <<heap, instances, created>>
optionVars == <<output, replaced>>

None == <<>>

(***************************************************************************)
(* Bounds                                                                  *)
(***************************************************************************)
\* total number of boundary-condition records of one deformation input
MaxRecs == 2

\* number of input records constructed in one run
MaxInstances == 2

\* number of records appended to one list object
MaxListLen == 2

(***************************************************************************)
(* The mesh and the function spaces the loaders are handed.  One square    *)
(* cell: nodes 0..3 at (0,0), (1,0), (0,1), (1,1); boundary facets 1..4    *)
(* are the left, top, right and bottom edges.                              *)
(***************************************************************************)
Nodes == 0 .. 3

Facets == 1 .. 4

FacetNodes(f) ==
    CASE f = 1 -> {0, 2}
      [] f = 2 -> {2, 3}
      [] f = 3 -> {1, 3}
      [] f = 4 -> {0, 1}

\* x-coordinate of a node
XCoord(n) == n % 2

\* geometric dimension, the block size of the vector space
gdim == 2

\* V of the elasticity problem: blocked vector space, one block per node
VectorSpace == [bs |-> gdim, component |-> None, collapsed |-> FALSE]

\* V of the heat transfer problem: scalar space
ScalarSpace == [bs |-> 1, component |-> None, collapsed |-> FALSE]

\* V.sub(c): the view of coordinate c inside the parent space
sub(V, c) == [bs |-> V.bs, component |-> <<c>>, collapsed |-> FALSE]

\* Vbc.collapse()[0]: standalone scalar space of the view, one dof per node
collapse(Vbc) == [bs |-> 1, component |-> None, collapsed |-> TRUE]

RECURSIVE SortedSeq(_)
SortedSeq(S) ==
    IF S = {} THEN <<>>
    ELSE LET m == CHOOSE x \in S : \A y \in S : x <= y
         IN  <<m>> \o SortedSeq(S \ {m})

Range(s) == {s[k] : k \in 1 .. Len(s)}

\* fem.locate_dofs_topological(V, entity_dim, entities): sorted indices of
\* the dofs on the closure of the entities.  For a blocked space these are
\* block (node) indices; for a view V.sub(c) they are indices in the parent.
locate_dofs_topological(V, entities) ==
    LET on == UNION {FacetNodes(entities[k]) : k \in 1 .. Len(entities)}
    IN  IF V.component = None
        THEN SortedSeq(on)
        ELSE SortedSeq({n * V.bs + V.component[1] : n \in on})

\* the value functions of the records: value(x) at node n, coordinate k
ValueNames == {"zero", "ramp"}

ValueAt(value, n, k) ==
    IF value = "zero" THEN 0 ELSE XCoord(n) + k + 1

\* fem.Function(V): a zero field on V; a subspace view is refused
\* ("Cannot create Function from subspace")
Function(V) ==
    IF V.component # None
    THEN [status |-> "RuntimeError", value |-> None, calls |-> <<>>]
    ELSE [status |-> "ok",
          value |-> <<[V |-> V,
                       x |-> [dof \in 0 .. (Cardinality(Nodes) * V.bs - 1)
                                 |-> 0]]>>,
          calls |-> <<>>]

\* ubc.interpolate(value): the field takes the values of the function
interpolate(ubc, value) ==
    [ubc EXCEPT !.x = [dof \in DOMAIN ubc.x |->
                          ValueAt(value, dof \div ubc.V.bs, dof % ubc.V.bs)]]

\* fem.dirichletbc(value, dofs[, V]); dofs is one index array per space the
\* dofs were located in: <<dofs>> or <<dofs_vector, dofs_scalar>>; V is None
\* or <<Vbc>>
dirichletbc(value, dofs, V) == [value |-> value, dofs |-> dofs, V |-> V]

\* the degrees of freedom of the parent space a constraint pins: a
\* constraint given block indices of a blocked space pins every coordinate
\* of the block, one given a view pins the listed dofs of the view
ConstrainedDofs(bc) ==
    IF bc.V = None
    THEN {b * bc.value.V.bs + k : b \in Range(bc.dofs[1]),
                                  k \in 0 .. (bc.value.V.bs - 1)}
    ELSE Range(bc.dofs[1])

\* the value a constraint prescribes at a pinned dof of the parent space
PrescribedAt(bc, dof) ==
    IF bc.V = None
    THEN bc.value.x[dof]
    ELSE LET k == CHOOSE j \in 1 .. Len(bc.dofs[1]) : bc.dofs[1][j] = dof
         IN  bc.value.x[bc.dofs[2][k]]

(***************************************************************************)
(* numpy and the tagging interface                                         *)
(***************************************************************************)
\* a * np.ones(n, dtype=np.int32)
ones(n) == [k \in 1 .. n |-> 1]

times(a, arr) == [k \in 1 .. Len(arr) |-> a * arr[k]]

\* np.hstack of a non-empty list of arrays
RECURSIVE hstack(_)
hstack(arrays) ==
    IF Len(arrays) = 0 THEN <<>> ELSE Head(arrays) \o hstack(Tail(arrays))

\* meshtags keeping one tag per entity, the last one given
meshtags_one_tag_per_entity(dim, entities, values) ==
    LET keep == SortedSeq({k \in 1 .. Len(entities) :
                             \A j \in (k + 1) .. Len(entities) :
                                entities[j] # entities[k]})
    IN  [dim |-> dim,
         indices |-> [k \in 1 .. Len(keep) |-> entities[keep[k]]],
         values |-> [k \in 1 .. Len(keep) |-> values[keep[k]]]]

\* mesh.meshtags(mesh, dim, entities, values)
meshtags(dim, entities, values) ==
    [dim |-> dim, indices |-> entities, values |-> values]

\* ufl.Measure("ds", subdomain_data=mtags)
Measure(integral_type, mtags) ==
    [integral_type |-> integral_type, subdomain_data |-> mtags,
     subdomain_id |-> None]

\* ds(i): the measure restricted to tag i
restrict(ds, i) == [ds EXCEPT !.subdomain_id = <<i>>]

\* the facets a restricted measure integrates over: those stamped with its tag
MeasureFacets(m) ==
    {m.subdomain_data.indices[k] :
        k \in {j \in 1 .. Len(m.subdomain_data.indices) :
                  <<m.subdomain_data.values[j]>> = m.subdomain_id}}

(***************************************************************************)
(* Results of calls                                                        *)
(***************************************************************************)
Return(v, calls) == [status |-> "ok", value |-> <<v>>, calls |-> calls]

Raise(e, calls) == [status |-> e, value |-> None, calls |-> calls]

(***************************************************************************)
(* loaders/deformation.py                                                  *)
(***************************************************************************)
\* V.mesh.topology.dim - 1
bdim == gdim - 1

\* tag_values with the tags counted from 0, as enumerate counts
tag_values_from_zero(i, facets) == times(i, ones(Len(facets)))

\* (i + 1) * np.ones(len(facets), dtype=np.int32): the tags of record i
tag_values(i, facets) == times(i + 1, ones(Len(facets)))

\* the loop of boundary_measures from index i (0-based) on
RECURSIVE measures_loop(_, _, _, _, _)
measures_loop(bcs, bd, i, flist, vlist) ==
    IF i >= Len(bcs) THEN [status |-> "ok", flist |-> flist, vlist |-> vlist]
    ELSE LET bc == bcs[i + 1]
         IN  IF bc.section \notin DOMAIN bd
             THEN [status |-> "KeyError", flist |-> <<>>, vlist |-> <<>>]
             ELSE LET facets == bd[bc.section]
                  IN  measures_loop(bcs, bd, i + 1,
                          Append(flist, facets),
                          Append(vlist, tag_values(i, facets)))

\* DefmLoader.boundary_measures(bcs, V, bdict)
boundary_measures(bcs, V, bd) ==
    LET l == measures_loop(bcs, bd, 0, <<>>, <<>>)
    IN  IF l.status # "ok" THEN Raise(l.status, <<>>)
        ELSE IF Len(l.flist) = 0 THEN Raise("ValueError", <<>>)
        ELSE Return(Measure("ds",
                        meshtags(bdim, hstack(l.flist), hstack(l.vlist))),
                    <<>>)

\* displacement_bc locating both index arrays in the collapsed space
displacement_bc_collapsed_only(dbc, V, bd) ==
    LET facets == bd[dbc.section]
    IN  IF dbc.component = None
        THEN dirichletbc(interpolate(Function(V).value[1], dbc.value),
                         <<locate_dofs_topological(V, facets)>>, None)
        ELSE LET Vbc == sub(V, dbc.component[1])
                 Vc == collapse(Vbc)
                 dofs_scalar == locate_dofs_topological(Vc, facets)
             IN  dirichletbc(interpolate(Function(Vc).value[1], dbc.value),
                             <<dofs_scalar, dofs_scalar>>, <<Vbc>>)

\* body of the loop of displacement_bcs for one record whose section exists
displacement_bc(dbc, V, bd) ==
    LET facets == bd[dbc.section]
    IN  IF dbc.component = None
        THEN LET dofs == locate_dofs_topological(V, facets)
                 ubc == interpolate(Function(V).value[1], dbc.value)
             IN  dirichletbc(ubc, <<dofs>>, None)
        ELSE LET Vbc == sub(V, dbc.component[1])
                 Vc == collapse(Vbc)
                 dofs_vector ==
                     locate_dofs_topological(sub(V, dbc.component[1]), facets)
                 dofs_scalar == locate_dofs_topological(Vc, facets)
                 dofs == <<dofs_vector, dofs_scalar>>
                 ubc == interpolate(Function(Vc).value[1], dbc.value)
             IN  dirichletbc(ubc, dofs, <<Vbc>>)

RECURSIVE displacement_loop(_, _, _, _, _)
displacement_loop(bcs, V, bd, k, dbcs) ==
    IF k > Len(bcs) THEN Return(dbcs, <<>>)
    ELSE IF bcs[k].section \notin DOMAIN bd THEN Raise("KeyError", <<>>)
    ELSE displacement_loop(bcs, V, bd, k + 1,
             Append(dbcs, displacement_bc(bcs[k], V, bd)))

\* displacement_loop that ends the loop at a missing section
RECURSIVE displacement_loop_lenient(_, _, _, _, _)
displacement_loop_lenient(bcs, V, bd, k, dbcs) ==
    IF k > Len(bcs) THEN Return(dbcs, <<>>)
    ELSE IF bcs[k].section \notin DOMAIN bd THEN Return(dbcs, <<>>)
    ELSE displacement_loop_lenient(bcs, V, bd, k + 1,
             Append(dbcs, displacement_bc(bcs[k], V, bd)))

\* displacement_bcs returning what it has resolved when a section is missing
displacement_bcs_partial(inp, V, bd) ==
    displacement_loop_lenient(inp.displacement_bcs, V, bd, 1, <<>>)

\* displacement_bcs inserting each constraint at the front of the list
displacement_bcs_reversed(inp, V, bd) ==
    LET r == displacement_loop(inp.displacement_bcs, V, bd, 1, <<>>)
    IN  IF r.status # "ok" THEN r
        ELSE Return([k \in 1 .. Len(r.value[1]) |->
                        r.value[1][Len(r.value[1]) + 1 - k]], <<>>)

\* LinearElasticity.displacement_bcs(V, bdict)
displacement_bcs(inp, V, bd) ==
    displacement_loop(inp.displacement_bcs, V, bd, 1, <<>>)

\* body of the loop of temperature_bcs for one record whose section exists
temperature_bc(dbc, V, bd) ==
    LET facets == bd[dbc.section]
        dofs == locate_dofs_topological(V, facets)
        ubc == interpolate(Function(V).value[1], dbc.value)
    IN  dirichletbc(ubc, <<dofs>>, None)

RECURSIVE temperature_loop(_, _, _, _, _)
temperature_loop(bcs, V, bd, k, dbcs) ==
    IF k > Len(bcs) THEN Return(dbcs, <<>>)
    ELSE IF bcs[k].section \notin DOMAIN bd THEN Raise("KeyError", <<>>)
    ELSE temperature_loop(bcs, V, bd, k + 1,
             Append(dbcs, temperature_bc(bcs[k], V, bd)))

\* HeatTransfer.temperature_bcs(V, bdict)
temperature_bcs(inp, V, bd) ==
    temperature_loop(inp.temperature_bcs, V, bd, 1, <<>>)

\* Traction(ubc, ds(i + 1), tbc.component): the descriptor is the form
\* with the arguments it was constructed from
Traction(ubc, ds_i, component) ==
    [form |-> "Traction", args |-> <<ubc, ds_i, component>>]

\* Flux(ubc, ds(i + 1)): constructed from a field and a sub-measure only
Flux(ubc, ds_i) ==
    [form |-> "Flux", args |-> <<ubc, ds_i>>]

\* body of the second loop of traction_bcs for record i (0-based); it
\* raises when the Function cannot be created on Vbc
traction_bc(i, tbc, V, ds) ==
    LET Vbc == IF tbc.component = None THEN V ELSE sub(V, tbc.component[1])
        ubc == Function(Vbc)
    IN  IF ubc.status # "ok" THEN Raise(ubc.status, <<>>)
        ELSE Return(Traction(interpolate(ubc.value[1], tbc.value),
                             restrict(ds, i + 1), tbc.component), <<>>)

\* the second loop of traction_bcs: the list of descriptors, or the error
\* of the first record whose body raises
traction_loop(bcs, V, ds) ==
    LET r == [k \in 1 .. Len(bcs) |-> traction_bc(k - 1, bcs[k], V, ds)]
        bad == {k \in 1 .. Len(bcs) : r[k].status # "ok"}
    IN  IF bad # {}
        THEN Raise(r[CHOOSE k \in bad : \A j \in bad : k <= j].status,
                   <<"boundary_measures">>)
        ELSE Return([k \in 1 .. Len(bcs) |-> r[k].value[1]],
                    <<"boundary_measures">>)

\* traction_bcs without the test for an empty list
traction_bcs_unguarded(inp, V, bd) ==
    LET m == boundary_measures(inp.traction_bcs, V, bd)
    IN  IF m.status # "ok"
        THEN Raise(m.status, <<"boundary_measures">>)
        ELSE traction_loop(inp.traction_bcs, V, m.value[1])

\* LinearElasticity.traction_bcs(V, bdict)
traction_bcs(inp, V, bd) ==
    IF Len(inp.traction_bcs) = 0 THEN Return(<<>>, <<>>)
    ELSE LET m == boundary_measures(inp.traction_bcs, V, bd)
         IN  IF m.status # "ok"
             THEN Raise(m.status, <<"boundary_measures">>)
             ELSE traction_loop(inp.traction_bcs, V, m.value[1])

\* body of the second loop of flux_bcs for record i (0-based)
flux_bc(i, fbc, V, ds) ==
    LET ubc == interpolate(Function(V).value[1], fbc.value)
    IN  Flux(ubc, restrict(ds, i + 1))

\* HeatTransfer.flux_bcs(V, bdict)
flux_bcs(inp, V, bd) ==
    IF Len(inp.flux_bcs) = 0 THEN Return(<<>>, <<>>)
    ELSE LET m == boundary_measures(inp.flux_bcs, V, bd)
         IN  IF m.status # "ok"
             THEN Raise(m.status, <<"boundary_measures">>)
             ELSE Return([k \in 1 .. Len(inp.flux_bcs) |->
                             flux_bc(k - 1, inp.flux_bcs[k], V, m.value[1])],
                         <<"boundary_measures">>)

(***************************************************************************)
(* The inputs the loaders are run on                                       *)
(***************************************************************************)
\* the boundary dictionary of the mesh: "left" is the left edge, "far" the
\* top and right edges, "hole" a section no facet of this mesh lies on
BoundaryDict ==
    [s \in {"left", "far", "hole"} |->
        CASE s = "left" -> <<1>>
          [] s = "far" -> <<2, 3>>
          [] s = "hole" -> <<>>]

\* section names a record may carry; "nosuch" is in no boundary dictionary
SectionNames == {"left", "far", "hole", "nosuch"}

Components == {None} \cup {<<c>> : c \in 0 .. (gdim - 1)}

\* inputs.deformation.BoundaryCondition(section, value, component=None)
BoundaryCondition(section, value, component) ==
    [section |-> section, value |-> value, component |-> component]

\* the records of the inputs: every value and component on the sections
\* that have facets, and two records each on the section without facets
\* and on the missing section
BoundaryConditions ==
    {BoundaryCondition(s, v, c) :
        s \in {"left", "far"}, v \in ValueNames, c \in Components}
    \cup
    {BoundaryCondition(s, "zero", None) : s \in {"hole", "nosuch"}}
    \cup
    {BoundaryCondition(s, "ramp", <<gdim - 1>>) : s \in {"hole", "nosuch"}}

RECURSIVE SeqsOfLen(_, _)
SeqsOfLen(S, n) ==
    IF n = 0 THEN {<<>>}
    ELSE {Append(q, x) : q \in SeqsOfLen(S, n - 1), x \in S}

\* the pairs of record lists of at most MaxRecs records in all
ListPairs ==
    UNION {UNION {SeqsOfLen(BoundaryConditions, a)
                     \X SeqsOfLen(BoundaryConditions, b) :
                        b \in 0 .. (MaxRecs - a)} :
              a \in 0 .. MaxRecs}

DefmInputs ==
    {[type |-> "LinearElasticity", displacement_bcs |-> p[1],
      traction_bcs |-> p[2]] : p \in ListPairs}
    \cup
    {[type |-> "HeatTransfer", temperature_bcs |-> p[1], flux_bcs |-> p[2]] :
        p \in ListPairs}

NoInput == [type |-> "none"]

NoCall == [method |-> "none", bcs |-> <<>>, result |-> Raise("none", <<>>)]

Call(method, bcs, result) ==
    [method |-> method, bcs |-> bcs, result |-> result]

(***************************************************************************)
(* Loader: the state machine                                               *)
(***************************************************************************)
LoaderIdle ==
    /\ bdict = BoundaryDict
    /\ defm_input = NoInput
    /\ last = NoCall

\* record a call and its outcome
Record(call) ==
    /\ last' = call
    /\ UNCHANGED <<bdict, defm_input>>

\* DefmLoader.__init__(defm_input)
DefmLoader_init ==
    /\ defm_input.type = "none"
    /\ \E inp \in DefmInputs : defm_input' = inp
    /\ UNCHANGED <<bdict, last>>

CallDisplacementBcs ==
    /\ defm_input.type = "LinearElasticity"
    /\ Record(Call("displacement_bcs", defm_input.displacement_bcs,
                   displacement_bcs(defm_input, VectorSpace, bdict)))

CallTractionBcs ==
    /\ defm_input.type = "LinearElasticity"
    /\ Record(Call("traction_bcs", defm_input.traction_bcs,
                   traction_bcs(defm_input, VectorSpace, bdict)))

CallTemperatureBcs ==
    /\ defm_input.type = "HeatTransfer"
    /\ Record(Call("temperature_bcs", defm_input.temperature_bcs,
                   temperature_bcs(defm_input, ScalarSpace, bdict)))

CallFluxBcs ==
    /\ defm_input.type = "HeatTransfer"
    /\ Record(Call("flux_bcs", defm_input.flux_bcs,
                   flux_bcs(defm_input, ScalarSpace, bdict)))

\* the static method called on the natural-type list of the input
CallBoundaryMeasures ==
    /\ defm_input.type # "none"
    /\ LET bcs == IF defm_input.type = "LinearElasticity"
                  THEN defm_input.traction_bcs ELSE defm_input.flux_bcs
           V == IF defm_input.type = "LinearElasticity"
                THEN VectorSpace ELSE ScalarSpace
       IN  Record(Call("boundary_measures", bcs,
                       boundary_measures(bcs, V, bdict)))

LoaderNext ==
    \/ DefmLoader_init
    \/ CallDisplacementBcs
    \/ CallTractionBcs
    \/ CallTemperatureBcs
    \/ CallFluxBcs
    \/ CallBoundaryMeasures

(***************************************************************************)
(* inputs/deformation.py: the input templates.  A list is an object with   *)
(* an identity: heap[id] is its content and a record field holds the id.   *)
(* The lists written in the defaults of the two namedtuple classes are     *)
(* created once, when the module is imported.                              *)
(***************************************************************************)
\* defaults=[None, None, None, [], []] of LinearElasticity
LinearElasticityDefaults ==
    [force_density |-> None, plastic_distortion |-> None,
     thermal_expansion |-> None, displacement_bcs |-> 1, traction_bcs |-> 2]

\* defaults=[None, [], []] of HeatTransfer
HeatTransferDefaults ==
    [body_heat |-> None, temperature_bcs |-> 3, flux_bcs |-> 4]

\* the heap once the module is imported: the four default lists, empty
ImportedHeap == <<None, None, None, None>>

\* inputs.deformation.LinearElasticity(name, displacement_bcs=d,
\* traction_bcs=t); d and t are list ids, the defaults when not passed
LinearElasticity(name, d, t) ==
    [type |-> "LinearElasticity", name |-> name,
     force_density |-> LinearElasticityDefaults.force_density,
     plastic_distortion |-> LinearElasticityDefaults.plastic_distortion,
     thermal_expansion |-> LinearElasticityDefaults.thermal_expansion,
     displacement_bcs |-> d, traction_bcs |-> t]

\* inputs.deformation.HeatTransfer(name, temperature_bcs=d, flux_bcs=t)
HeatTransfer(name, d, t) ==
    [type |-> "HeatTransfer", name |-> name,
     body_heat |-> HeatTransferDefaults.body_heat,
     temperature_bcs |-> d, flux_bcs |-> t]

\* what reading the fields of a record shows: the sources and the contents
\* of its Dirichlet-type and natural-type lists
Fields(h, inst, only_name) ==
    IF inst.type = "LinearElasticity"
    THEN [only_name |-> only_name,
          sources |-> <<inst.force_density, inst.plastic_distortion,
                        inst.thermal_expansion>>,
          dirichlet |-> h[inst.displacement_bcs],
          natural |-> h[inst.traction_bcs]]
    ELSE [only_name |-> only_name,
          sources |-> <<inst.body_heat>>,
          dirichlet |-> h[inst.temperature_bcs],
          natural |-> h[inst.flux_bcs]]

\* the records a caller appends in the input model
InputRecords ==
    {BoundaryCondition("left", "zero", None),
     BoundaryCondition("far", "ramp", <<0>>)}

NothingCreated ==
    [only_name |-> FALSE, sources |-> <<>>, dirichlet |-> <<>>,
     natural |-> <<>>]

InputsInit ==
    /\ heap = ImportedHeap
    /\ instances = <<>>
    /\ created = NothingCreated

\* LinearElasticity(name="test")
NewLinearElasticity ==
    /\ Len(instances) < MaxInstances
    /\ LET inst == LinearElasticity("test",
                       LinearElasticityDefaults.displacement_bcs,
                       LinearElasticityDefaults.traction_bcs)
       IN  /\ instances' = Append(instances, inst)
           /\ created' = Fields(heap, inst, TRUE)
    /\ UNCHANGED heap

\* HeatTransfer(name="test")
NewHeatTransfer ==
    /\ Len(instances) < MaxInstances
    /\ LET inst == HeatTransfer("test",
                       HeatTransferDefaults.temperature_bcs,
                       HeatTransferDefaults.flux_bcs)
       IN  /\ instances' = Append(instances, inst)
           /\ created' = Fields(heap, inst, TRUE)
    /\ UNCHANGED heap

\* LinearElasticity(name="test", displacement_bcs=[], traction_bcs=[]):
\* the caller passes two new lists
NewLinearElasticityWithLists ==
    /\ Len(instances) < MaxInstances
    /\ LET d == Len(heap) + 1
           t == Len(heap) + 2
           inst == LinearElasticity("test", d, t)
       IN  /\ heap' = heap \o <<None, None>>
           /\ instances' = Append(instances, inst)
           /\ created' = Fields(heap', inst, FALSE)

\* inst.displacement_bcs.append(bc) and its like: the list object grows
AppendRecord ==
    \E k \in 1 .. Len(instances), natural \in BOOLEAN, bc \in InputRecords :
        LET inst == instances[k]
            id == IF inst.type = "LinearElasticity"
                  THEN IF natural THEN inst.traction_bcs
                       ELSE inst.displacement_bcs
                  ELSE IF natural THEN inst.flux_bcs
                       ELSE inst.temperature_bcs
        IN  /\ Len(heap[id]) < MaxListLen
            /\ heap' = [heap EXCEPT ![id] = Append(@, bc)]
            /\ UNCHANGED <<instances, created>>

InputsNext ==
    \/ NewLinearElasticity
    \/ NewHeatTransfer
    \/ NewLinearElasticityWithLists
    \/ AppendRecord

(***************************************************************************)
(* inputs/options.py: the output options.  The Output namedtuple is a      *)
(* tuple of values in the order of _flds; a field is read by its position. *)
(***************************************************************************)
_flds ==
    <<"write_mesh", "write_grain_ids", "write_displacement",
      "write_strain", "write_stress", "grain_averages">>

\* len(_flds) * [True]
_dflts == [k \in 1 .. Len(_flds) |-> TRUE]

\* LinearElasticity._make_output(): Output() with every default
_make_output == [k \in 1 .. Len(_flds) |-> _dflts[k]]

\* output.<name>
getattr(out, name) == out[CHOOSE k \in 1 .. Len(_flds) : _flds[k] = name]

\* _replace building the new tuple from the defaults: Output(**kwds)
_replace_from_defaults(out, kwds) ==
    [k \in 1 .. Len(_flds) |->
        IF _flds[k] \in DOMAIN kwds THEN kwds[_flds[k]] ELSE _dflts[k]]

\* output._replace(**kwds)
_replace(out, kwds) ==
    [k \in 1 .. Len(_flds) |->
        IF _flds[k] \in DOMAIN kwds THEN kwds[_flds[k]] ELSE out[k]]

\* the keyword arguments a caller may pass to _replace
Keywords ==
    UNION {[S -> BOOLEAN] : S \in SUBSET Range(_flds)}

NoReplace == [done |-> FALSE, kwds |-> <<>>]

\* options = inputs.options.LinearElasticity()
OptionsInit ==
    /\ output = _make_output
    /\ replaced = NoReplace

\* options.output = options.output._replace(**kwds)
Replace ==
    \E kwds \in Keywords :
        /\ output' = _replace(output, kwds)
        /\ replaced' = [done |-> TRUE, kwds |-> kwds]

\* a new options object takes the place of the old one
LinearElasticity_init ==
    /\ replaced.done
    /\ output' = _make_output
    /\ replaced' = NoReplace

OptionsNext ==
    \/ Replace
    \/ LinearElasticity_init

(***************************************************************************)
(* Specifications                                                          *)
(***************************************************************************)
Init == LoaderIdle /\ InputsInit /\ OptionsInit

LoaderStep == LoaderNext /\ UNCHANGED <<inputVars, optionVars>>

InputsStep == InputsNext /\ UNCHANGED <<loaderVars, optionVars>>

OptionsStep == OptionsNext /\ UNCHANGED <<loaderVars, inputVars>>

SpecLoader == Init /\ [][LoaderStep]_vars

SpecInputs == Init /\ [][InputsStep]_vars

SpecOptions == Init /\ [][OptionsStep]_vars

(***************************************************************************)
(* Vocabulary of the properties                                            *)
(***************************************************************************)
\* every record of the list names a section of the boundary dictionary
SectionsKnown(bcs) ==
    \A k \in 1 .. Len(bcs) : bcs[k].section \in DOMAIN bdict

\* the facets of the section of a record, as a set
SectionFacets(bc) == Range(bdict[bc.section])

\* the nodes on the facets of the section of a record
SectionNodes(bc) == UNION {FacetNodes(f) : f \in SectionFacets(bc)}

Returned == last.result.status = "ok"

\* the value the last call returned
Value == last.result.value[1]

Resolvers == {"displacement_bcs", "temperature_bcs"}

Adapters == {"traction_bcs", "flux_bcs"}

\* block size of the space the last call was given
SpaceBs == IF defm_input.type = "LinearElasticity" THEN gdim ELSE 1

\* the dofs of the parent space a Dirichlet record is meant to pin: those
\* of its coordinate, or of every coordinate, at the nodes of its section
ExpectedDofs(bc, selector) ==
    {n * SpaceBs + k :
        n \in SectionNodes(bc),
        k \in IF selector = None THEN 0 .. (SpaceBs - 1) ELSE {selector[1]}}

\* the component selector a Dirichlet record is resolved with
Selector(bc) ==
    IF last.method = "displacement_bcs" THEN bc.component ELSE None

\* constraint c is the one resolved from record bc: it pins dofs at the
\* nodes of the section of bc, to the values of the function of bc there
ResolvedFrom(c, bc) ==
    /\ {dof \div SpaceBs : dof \in ConstrainedDofs(c)} = SectionNodes(bc)
    /\ \A dof \in ConstrainedDofs(c) :
          PrescribedAt(c, dof) =
              ValueAt(bc.value, dof \div SpaceBs,
                      IF Selector(bc) = None THEN dof % SpaceBs ELSE 0)

(***************************************************************************)
(* C1: for a non-empty list of N natural-type records with known sections, *)
(* boundary_measures stamps record i (1-indexed) with tag i: every tag in  *)
(* the tag structure is in 1..N, tag i is on the structure for every       *)
(* record i whose section has a facet, and the facets carrying tag i are   *)
(* exactly the facets of the section of record i.                          *)
(***************************************************************************)
C1_TagsMatchSections ==
    (/\ last.method = "boundary_measures"
     /\ Len(last.bcs) > 0
     /\ SectionsKnown(last.bcs))
    => /\ Returned
       /\ LET N == Len(last.bcs)
              mtags == Value.subdomain_data
          IN  /\ Range(mtags.values) \subseteq 1 .. N
              /\ Len(mtags.values) = Len(mtags.indices)
              /\ \A i \in 1 .. N :
                    /\ MeasureFacets(restrict(Value, i))
                          = SectionFacets(last.bcs[i])
                    /\ SectionFacets(last.bcs[i]) # {}
                          => i \in Range(mtags.values)

C1_Witness ==
    /\ last.method = "boundary_measures"
    /\ Returned
    /\ Len(last.bcs) = 2
    /\ last.bcs[1].section = "far"
    /\ last.bcs[2].section = "left"
    /\ MeasureFacets(restrict(Value, 1)) = {2, 3}
    /\ MeasureFacets(restrict(Value, 2)) = {1}

(***************************************************************************)
(* C2: with an empty natural-type list, traction_bcs and flux_bcs return   *)
(* the empty list of descriptors and do not invoke boundary_measures.      *)
(***************************************************************************)
C2_EmptyNaturalList ==
    (last.method \in Adapters /\ last.bcs = <<>>)
    => /\ Returned
       /\ Value = <<>>
       /\ last.result.calls = <<>>

C2_Witness ==
    /\ last.method = "flux_bcs"
    /\ last.bcs = <<>>
    /\ Returned
    /\ defm_input.temperature_bcs # <<>>

(***************************************************************************)
(* C3: when a record of the list names a section that is not in the        *)
(* boundary dictionary, each of displacement_bcs, temperature_bcs,         *)
(* traction_bcs and flux_bcs raises the lookup error and returns nothing,  *)
(* and a call changes neither the boundary dictionary nor the records.     *)
(***************************************************************************)
C3_UnknownSectionAtomic ==
    /\ []((last.method \in Resolvers \cup Adapters
             /\ ~SectionsKnown(last.bcs))
          => /\ last.result.status = "KeyError"
             /\ last.result.value = None)
    /\ [][defm_input.type # "none"
            => (defm_input' = defm_input /\ bdict' = bdict)]_vars

C3_Witness ==
    /\ last.method = "displacement_bcs"
    /\ Len(last.bcs) = 2
    /\ last.bcs[1].section = "left"
    /\ last.bcs[2].section = "nosuch"
    /\ last.result.status = "KeyError"

(***************************************************************************)
(* C4: for Dirichlet records with known sections, displacement_bcs and     *)
(* temperature_bcs return as many constraints as there are records, and    *)
(* the k-th constraint is the one resolved from the k-th record.           *)
(***************************************************************************)
C4_OneConstraintPerRecordInOrder ==
    (last.method \in Resolvers /\ SectionsKnown(last.bcs))
    => /\ Returned
       /\ Len(Value) = Len(last.bcs)
       /\ \A k \in 1 .. Len(last.bcs) : ResolvedFrom(Value[k], last.bcs[k])

C4_Witness ==
    /\ last.method = "displacement_bcs"
    /\ Returned
    /\ Len(last.bcs) = 2
    /\ last.bcs[1].section = "far"
    /\ last.bcs[1].value = "ramp"
    /\ last.bcs[2].section = "left"
    /\ last.bcs[2].value = "zero"
    /\ Len(Value) = 2

(***************************************************************************)
(* C5: in displacement_bcs a record with component c pins exactly the dofs *)
(* of coordinate c at the nodes of its section, located as two index       *)
(* arrays of equal length whose k-th entries are the same dof in the view  *)
(* and in the collapsed space; a record without component pins the dofs of *)
(* every coordinate at those nodes.                                        *)
(***************************************************************************)
C5_ComponentDofs ==
    (last.method = "displacement_bcs" /\ Returned)
    => \A k \in 1 .. Len(last.bcs) :
          LET bc == last.bcs[k]
              c == Value[k]
          IN  /\ ConstrainedDofs(c) = ExpectedDofs(bc, bc.component)
              /\ bc.component # None
                    => /\ Len(c.dofs) = 2
                       /\ Len(c.dofs[1]) = Len(c.dofs[2])
                       /\ \A j \in 1 .. Len(c.dofs[1]) :
                             c.dofs[1][j]
                                = c.dofs[2][j] * gdim + bc.component[1]

C5_Witness ==
    /\ last.method = "displacement_bcs"
    /\ Returned
    /\ Len(last.bcs) = 2
    /\ last.bcs[1] = BoundaryCondition("far", "ramp", <<1>>)
    /\ last.bcs[2] = BoundaryCondition("left", "zero", None)
    /\ ConstrainedDofs(Value[1]) = {3, 5, 7}
    /\ ConstrainedDofs(Value[2]) = {0, 1, 4, 5}

(***************************************************************************)
(* C8: when two records at positions i # j of the list given to            *)
(* boundary_measures name the same (known) section, the call returns a     *)
(* measure, the facets of the section carry both tag i and tag j, and both *)
(* sub-measures cover exactly those facets.                                *)
(***************************************************************************)
C8_RepeatedSectionTaggedTwice ==
    (last.method = "boundary_measures" /\ SectionsKnown(last.bcs))
    => \A i, j \in 1 .. Len(last.bcs) :
          (i # j /\ last.bcs[i].section = last.bcs[j].section)
          => /\ Returned
             /\ MeasureFacets(restrict(Value, i)) = SectionFacets(last.bcs[i])
             /\ MeasureFacets(restrict(Value, j)) = SectionFacets(last.bcs[i])
             /\ \A f \in SectionFacets(last.bcs[i]) :
                   \E a, b \in 1 .. Len(Value.subdomain_data.indices) :
                      /\ Value.subdomain_data.indices[a] = f
                      /\ Value.subdomain_data.indices[b] = f
                      /\ Value.subdomain_data.values[a] = i
                      /\ Value.subdomain_data.values[b] = j

C8_Witness ==
    /\ last.method = "boundary_measures"
    /\ Returned
    /\ Len(last.bcs) = 2
    /\ last.bcs[1].section = "far"
    /\ last.bcs[2].section = "far"
    /\ Value.subdomain_data.indices = <<2, 3, 2, 3>>
    /\ Value.subdomain_data.values = <<1, 1, 2, 2>>

\* the component selector a descriptor was constructed with, None when it
\* was constructed without one
DescriptorComponent(d) == IF Len(d.args) >= 3 THEN d.args[3] ELSE None

\* the values of the function of a record on the space the adapter is given
FieldValues(bc) ==
    [dof \in 0 .. (Cardinality(Nodes) * SpaceBs - 1) |->
        IF bc.component = None \/ last.method = "flux_bcs"
        THEN ValueAt(bc.value, dof \div SpaceBs, dof % SpaceBs)
        ELSE IF dof % SpaceBs = bc.component[1]
             THEN ValueAt(bc.value, dof \div SpaceBs, 0) ELSE 0]

\* descriptor d pairs the field of record bc with the sub-measure of tag i
\* of the measure the builder made for the list, which covers the section
PairsFieldAndTag(d, bc, i) ==
    /\ d.args[1].x = FieldValues(bc)
    /\ d.args[2].subdomain_id = <<i>>
    /\ MeasureFacets(d.args[2]) = SectionFacets(bc)

(***************************************************************************)
(* C10: for a non-empty natural-type list with known sections,             *)
(* traction_bcs and flux_bcs return one descriptor per record, in order,   *)
(* and the i-th pairs the field of record i with the sub-measure of tag i  *)
(* and with the component of record i.                                     *)
(***************************************************************************)
C10_AsStated ==
    (last.method \in Adapters /\ Len(last.bcs) > 0
        /\ SectionsKnown(last.bcs))
    => /\ Returned
       /\ Len(Value) = Len(last.bcs)
       /\ \A i \in 1 .. Len(last.bcs) :
             /\ PairsFieldAndTag(Value[i], last.bcs[i], i)
             /\ DescriptorComponent(Value[i]) = last.bcs[i].component

(***************************************************************************)
(* C6: a new options object reports every output flag True; after          *)
(* _replace the flags named in the call report the values passed and every *)
(* other flag reports what it reported before, so replacing all six with   *)
(* False leaves every flag False.                                          *)
(***************************************************************************)
C6_OptionsRoundTrip ==
    /\ [](~replaced.done
            => \A f \in Range(_flds) : getattr(output, f) = TRUE)
    /\ [][replaced'.done
            => \A f \in Range(_flds) :
                  getattr(output', f)
                     = IF f \in DOMAIN replaced'.kwds
                       THEN replaced'.kwds[f] ELSE getattr(output, f)]_vars
    /\ []((replaced.done /\ replaced.kwds = [f \in Range(_flds) |-> FALSE])
            => \A f \in Range(_flds) : getattr(output, f) = FALSE)

C6_Witness ==
    /\ replaced.done
    /\ replaced.kwds = [f \in {"write_mesh", "write_stress"} |-> FALSE]
    /\ getattr(output, "write_mesh") = FALSE
    /\ getattr(output, "write_stress") = FALSE
    /\ getattr(output, "write_strain") = TRUE
    /\ getattr(output, "grain_averages") = FALSE

(***************************************************************************)
(* C7: an input record constructed with only a name shows no volumetric    *)
(* source and empty Dirichlet-type and natural-type lists when it is       *)
(* constructed, whatever was done to earlier records.                      *)
(***************************************************************************)
C7_DefaultsAreEmpty ==
    created.only_name
    => /\ \A k \in 1 .. Len(created.sources) : created.sources[k] = None
       /\ created.dirichlet = <<>>
       /\ created.natural = <<>>

====
